---- MODULE Spec2Model ----
(***************************************************************************)
(* The transcript-analysis pipeline of the meeting summarizer: the         *)
(* /api/summarize handler of "ps 3/app.py", the AIEngine of                *)
(* "ps 3/ai_engine.py" (construction, process_transcript and               *)
(* _fallback_parsing), create_fallback_analysis, classify_task_priority    *)
(* and the rows the handler saves.                                         *)
(*                                                                         *)
(* Text.  A text is the sequence of its lines (Python's text.split('\n')), *)
(* so the empty string is <<"">>.  A line is a string of a fixed           *)
(* vocabulary; what the code computes on a line with str methods and       *)
(* regular expressions (strip, lower, "in", split(':', 1), re.sub,         *)
(* re.match, html.escape, json.loads) is tabulated per vocabulary line,    *)
(* each table holding what the Python expression returns on that line.     *)
(* Everything the code does across lines (loops, sections, lists, dicts,   *)
(* branches, exceptions) is computed by the operators below.               *)
(*                                                                         *)
(* Values.  A dict is a function from its keys; a list is a sequence; a    *)
(* str element of a list of action items is wrapped as [str |-> s], so     *)
(* that it is no dict: it has none of a dict's keys.                       *)
(***************************************************************************)
EXTENDS Integers, Sequences, FiniteSets, TLC

VARIABLES
    pc,             \* position of the /api/summarize handler
    transcript,     \* handler local: transcript (raw, then sanitized)
    client_name,    \* handler local: client_name
    project_name,   \* handler local: project_name
    model,          \* app.py module global: model
    engine_model,   \* AIEngine.model of the engine built for the request
    calls,          \* generate_content calls made while serving the request
    response_text,  \* process_transcript local: response.text.strip()
    pt_outcome,     \* how process_transcript ended: returned or raised
    path,           \* the branch that produced the result
    result,         \* handler local: result
    status,         \* HTTP status of the response, 0 while none is sent
    data,           \* handler local: data, the body request.get_json() returned
    api_key_env,    \* os.getenv('GEMINI_API_KEY'), "None" when it is not set
    engine_key,     \* the key AIEngine.__init__ configured genai with
    created_by_required,  \* the tables enforce NOT NULL on created_by
    reply_space,    \* which texts generate_content may return in this run
    db,             \* the committed rows of the database
    alerts,         \* the task_data send_critical_task_email was called with
    db_error,       \* the exception the saving block ended with, "" when none
    repeat,         \* what a second call of create_fallback_analysis returned
    task_text,      \* classify_task_priority: task_text of a direct call
    priority,       \* classify_task_priority: what the direct call returned
    model_writer,   \* who assigned the current value of app.py's model
    model_seen,     \* whose assignment this request read at "if not model"
    other_pc,       \* position of a second, concurrent /api/summarize request
    other_seen,     \* whose assignment the second request read
    template_id,    \* handler local: data.get('template_id'), 0 when falsy
    template_context,  \* handler local: template_context
    now,            \* time.time(), in seconds
    requests,       \* RateLimiter.requests: the deque of times of each key
    last_cleanup,   \* RateLimiter.last_cleanup
    last_answer     \* what api_rate_limit did with the latest request

\* the deployment: left as it is by every request
env_vars == <<api_key_env, created_by_required, reply_space>>

\* what the handler saves and sends
db_vars == <<db, alerts, db_error>>

\* direct calls of create_fallback_analysis and classify_task_priority
call_vars == <<repeat, task_text, priority>>

\* the second request
other_vars == <<other_pc, other_seen>>

\* the bookkeeping of reads and writes of app.py's model
share_vars == <<model_writer, model_seen>>

\* the meeting template of a request
template_vars == <<template_id, template_context>>

\* the rate limiter of the process and its clock
rate_vars == <<now, requests, last_cleanup, last_answer>>

vars == <<pc, transcript, client_name, project_name, model, engine_model,
          calls, response_text, pt_outcome, path, result, status, data,
          engine_key, env_vars, db_vars, call_vars, other_vars, share_vars,
          template_vars, rate_vars>>

-----------------------------------------------------------------------------
(* Bounds of the model *)

\* most lines of a submitted transcript
MaxTranscriptLines == 2

\* most lines of a reply of the generative model
MaxReplyLines == 2

\* most lines of a transcript create_fallback_analysis is called on directly
MaxRemarkLines == 3

\* most lines of the context classify_task_priority is called on directly
MaxContextLines == 2

-----------------------------------------------------------------------------
(* Vocabulary *)

JsonFullLine ==
    "{\"summary\": \"Budget approved\", \"mood\": {\"overall\": \"Positive\", \"justification\": \"Productive\"}, \"action_items\": [{\"task\": \"Review the budget\", \"assignee\": \"Sarah\", \"assigned_by\": \"Mike\", \"deadline\": \"Friday\", \"priority\": \"Urgent\"}], \"participants\": [\"Sarah\", \"Mike\"], \"key_decisions\": [\"Ship v2\"], \"next_steps\": [\"Book the review\"]}"

JsonManyLine ==
    "{\"action_items\": [\"T1\", \"T2\", \"T3\", \"T4\", \"T5\", \"T6\", \"T7\", \"T8\", \"T9\", \"T10\", \"T11\"], \"key_decisions\": [\"D1\", \"D2\", \"D3\", \"D4\", \"D5\", \"D6\"], \"next_steps\": [\"N1\", \"N2\", \"N3\", \"N4\", \"N5\", \"N6\"]}"

\* lines a submitted transcript is made of
TranscriptLines ==
    {"",
     "   ",
     "Sarah: I will fix the urgent issue for Mike",
     "Mike: Sarah, that's a great update",
     "Action items:"}

\* lines a reply of the generative model is made of
ReplyLines ==
    {"",
     "Summary: Budget approved",
     "Action items:",
     "- Review the budget",
     "{",
     "}",
     "{}",
     "{\"summary\": \"\"}",
     JsonFullLine,
     JsonManyLine}

\* a line of 100001 characters 'A', and its first 50000 characters: the two
\* lines are written by name, their lengths are in LineLen
LongLine == "A * 100001"

LongLineCut == "A * 50000"

\* values of client_name and project_name in a request body
ClientNames == {"", "Acme"}
ProjectNames == {"", "R&D"}

TextsUpTo(lines, n) == UNION {[1..k -> lines] : k \in 1..n}

Transcripts == TextsUpTo(TranscriptLines, MaxTranscriptLines)

Replies == TextsUpTo(ReplyLines, MaxReplyLines)

\* a transcript longer than 100,000 characters: the long line, and lines
\* after it
LongTranscripts ==
    {<<LongLine>> \o rest :
        rest \in {<<>>} \cup TextsUpTo(TranscriptLines, MaxTranscriptLines - 1)}

\* lines of the transcripts create_fallback_analysis is called on directly
RemarkLines ==
    {"Sarah: I will fix the urgent issue for Mike",
     "Mike: Sarah, that's a great update",
     "Lee: good work by Sarah and Mike",
     "Lee: I think Mike should talk to Sarah"}

RemarkTranscripts == TextsUpTo(RemarkLines, MaxRemarkLines)

\* task texts and context lines classify_task_priority is called on directly
TaskTexts ==
    {"",
     "Review the budget",
     "Fix the login bug ASAP",
     "This is important",
     "Important and critical fix",
     "We should order mustard",
     "Send what is required"}

ContextLines ==
    {"",
     "by Friday we ship",
     "It is a priority",
     "Sarah: I will fix the urgent issue for Mike"}

Contexts == TextsUpTo(ContextLines, MaxContextLines)

-----------------------------------------------------------------------------
(* str methods and regular expressions, per vocabulary line *)

\* line.strip()
strip(line) ==
    CASE line = "   " -> ""
      [] OTHER -> line

\* html.escape(line, quote=True)
html_escape(line) ==
    CASE line = "Mike: Sarah, that's a great update" -> "Mike: Sarah, that&#x27;s a great update"
      [] line = "R&D" -> "R&amp;D"
      [] OTHER -> line

\* 'summary' in line.lower()
SummaryIn ==
    {"Summary: Budget approved",
     "{\"summary\": \"\"}",
     JsonFullLine}

\* 'action' in line.lower()
ActionIn ==
    {"Action items:",
     JsonFullLine,
     JsonManyLine}

\* 'item' in line.lower()
ItemIn ==
    {"Action items:",
     JsonFullLine,
     JsonManyLine}

\* 'decision' in line.lower()
DecisionIn ==
    {JsonFullLine,
     JsonManyLine}

\* 'next' in line.lower()
NextIn ==
    {JsonFullLine,
     JsonManyLine}

\* 'step' in line.lower()
StepIn ==
    {JsonFullLine,
     JsonManyLine}

\* ':' in line
ColonIn ==
    {"Sarah: I will fix the urgent issue for Mike",
     "Lee: good work by Sarah and Mike",
     "Mike: Sarah, that's a great update",
     "Action items:",
     "Mike: Sarah, that&#x27;s a great update",
     "Summary: Budget approved",
     "{\"summary\": \"\"}",
     JsonFullLine,
     JsonManyLine}

\* '{' in line; in every such line of the vocabulary it is the first character
OpenBraceIn ==
    {"{",
     "{}",
     "{\"summary\": \"\"}",
     JsonFullLine,
     JsonManyLine}

\* '}' in line; in every such line of the vocabulary it is the last character
CloseBraceIn ==
    {"}",
     "{}",
     "{\"summary\": \"\"}",
     JsonFullLine,
     JsonManyLine}

\* line.split(':', 1)[1].strip(), for a line that holds a colon
AfterColon(line) ==
    CASE line = "Sarah: I will fix the urgent issue for Mike" -> "I will fix the urgent issue for Mike"
      [] line = "Mike: Sarah, that's a great update" -> "Sarah, that's a great update"
      [] line = "Action items:" -> ""
      [] line = "Lee: good work by Sarah and Mike" -> "good work by Sarah and Mike"
      [] line = "Lee: I think Mike should talk to Sarah" -> "I think Mike should talk to Sarah"
      [] line = "Mike: Sarah, that&#x27;s a great update" -> "Sarah, that&#x27;s a great update"
      [] line = "Summary: Budget approved" -> "Budget approved"
      [] line = "{\"summary\": \"\"}" -> "\"\"}"
      [] line = JsonFullLine -> "\"Budget approved\", \"mood\": {\"overall\": \"Positive\", \"justification\": \"Productive\"}, \"action_items\": [{\"task\": \"Review the budget\", \"assignee\": \"Sarah\", \"assigned_by\": \"Mike\", \"deadline\": \"Friday\", \"priority\": \"Urgent\"}], \"participants\": [\"Sarah\", \"Mike\"], \"key_decisions\": [\"Ship v2\"], \"next_steps\": [\"Book the review\"]}"
      [] line = JsonManyLine -> "[\"T1\", \"T2\", \"T3\", \"T4\", \"T5\", \"T6\", \"T7\", \"T8\", \"T9\", \"T10\", \"T11\"], \"key_decisions\": [\"D1\", \"D2\", \"D3\", \"D4\", \"D5\", \"D6\"], \"next_steps\": [\"N1\", \"N2\", \"N3\", \"N4\", \"N5\", \"N6\"]}"
      [] OTHER -> ""

\* re.sub(r'^[\d\.\-\*\+]\s*', '', line)
clean_bullet(line) ==
    CASE line = "- Review the budget" -> "Review the budget"
      [] OTHER -> line

\* len(line)
LineLen(line) ==
    CASE line = LongLine -> 100001
      [] line = LongLineCut -> 50000
      [] OTHER -> Len(line)

\* line[:n], for a line longer than n
FirstChars(line, n) ==
    CASE line = LongLine /\ n = 50000 -> LongLineCut
      [] OTHER -> line

\* line[:200]
First200(line) ==
    CASE line = LongLineCut -> "AAAAAAAAAAAAAAAAAAAAAAAAAAAAAAAAAAAAAAAAAAAAAAAAAAAAAAAAAAAAAAAAAAAAAAAAAAAAAAAAAAAAAAAAAAAAAAAAAAAAAAAAAAAAAAAAAAAAAAAAAAAAAAAAAAAAAAAAAAAAAAAAAAAAAAAAAAAAAAAAAAAAAAAAAAAAAAAAAAAAAAAAAAAAAAAAAAAAAAAA"
      [] line = JsonFullLine -> "{\"summary\": \"Budget approved\", \"mood\": {\"overall\": \"Positive\", \"justification\": \"Productive\"}, \"action_items\": [{\"task\": \"Review the budget\", \"assignee\": \"Sarah\", \"assigned_by\": \"Mike\", \"deadline\": \"F"
      [] OTHER -> line

-----------------------------------------------------------------------------
(* Texts *)

EmptyText == <<"">>

IsBlank(line) == strip(line) = ""

RECURSIVE DropLeadingBlank(_)
DropLeadingBlank(lines) ==
    IF lines = <<>> THEN <<>>
    ELSE IF IsBlank(Head(lines)) THEN DropLeadingBlank(Tail(lines))
    ELSE lines

RECURSIVE DropTrailingBlank(_)
DropTrailingBlank(lines) ==
    IF lines = <<>> THEN <<>>
    ELSE IF IsBlank(lines[Len(lines)])
         THEN DropTrailingBlank(SubSeq(lines, 1, Len(lines) - 1))
    ELSE lines

\* text.strip(): the blank lines at both ends go, and the white space around
\* what is left
StripText(text) ==
    LET kept == DropTrailingBlank(DropLeadingBlank(text))
    IN  IF kept = <<>> THEN EmptyText
        ELSE [i \in 1..Len(kept) |->
                IF i = 1 \/ i = Len(kept) THEN strip(kept[i]) ELSE kept[i]]

RECURSIVE TextLen(_)
\* len(text): the characters of the lines and the newlines between them
TextLen(text) ==
    IF Len(text) = 1 THEN LineLen(text[1])
    ELSE LineLen(Head(text)) + 1 + TextLen(Tail(text))

RECURSIVE TakeLines(_, _)
\* text[:max_length], for a text longer than max_length: the lines before
\* the cut, and the first characters of the line the cut falls in
TakeLines(text, max_length) ==
    IF LineLen(Head(text)) >= max_length
    THEN <<FirstChars(Head(text), max_length)>>
    ELSE IF Len(text) = 1 THEN text
    ELSE <<Head(text)>>
         \o TakeLines(Tail(text), max_length - LineLen(Head(text)) - 1)

\* InputValidator.sanitize_string: no line of the vocabulary holds a control
\* character, so the first re.sub leaves the text as it is
sanitize_string(text, max_length) ==
    IF text = EmptyText THEN EmptyText
    ELSE LET escaped == [i \in 1..Len(text) |-> html_escape(text[i])]
             cut == IF TextLen(escaped) > max_length
                    THEN TakeLines(escaped, max_length)
                    ELSE escaped
         IN  StripText(cut)

\* str.strip() and sanitize_string on a one-line value
StripName(name) == StripText(<<name>>)[1]

SanitizeName(name, max_length) == sanitize_string(<<name>>, max_length)[1]

-----------------------------------------------------------------------------
(* AIEngine._fallback_parsing *)

\* a str element of a list whose elements are otherwise dicts
StrItem(s) == [str |-> s]

\* a result dict without participants
FallbackInitialResult_NoParticipants ==
    [summary |-> "", action_items |-> <<>>, key_decisions |-> <<>>,
     next_steps |-> <<>>]

\* the result dict _fallback_parsing starts from
FallbackInitialResult ==
    [summary |-> "", action_items |-> <<>>, participants |-> <<>>,
     key_decisions |-> <<>>, next_steps |-> <<>>]

\* the append to result[current_section] of one content line
AppendToSection(res, current_section, line) ==
    LET clean_line == clean_bullet(line)
    IN  IF clean_line /= "" /\ LineLen(clean_line) > 3
        THEN CASE current_section = "action_items" ->
                    [res EXCEPT !.action_items = Append(@, StrItem(clean_line))]
               [] current_section = "key_decisions" ->
                    [res EXCEPT !.key_decisions = Append(@, clean_line)]
               [] current_section = "next_steps" ->
                    [res EXCEPT !.next_steps = Append(@, clean_line)]
        ELSE res

RECURSIVE ScanLines(_, _, _, _)
\* the loop over the lines: section headers switch current_section, the
\* other lines are content of the current section
ScanLines(lines, i, current_section, res) ==
    IF i > Len(lines) THEN res
    ELSE
      LET line == strip(lines[i]) IN
      IF line = "" THEN ScanLines(lines, i + 1, current_section, res)
      ELSE IF line \in SummaryIn /\ line \in ColonIn THEN
        LET summary_part == AfterColon(line)
        IN  ScanLines(lines, i + 1, "summary",
                      IF summary_part /= ""
                      THEN [res EXCEPT !.summary = summary_part]
                      ELSE res)
      ELSE IF line \in ActionIn /\ line \in ItemIn THEN
        ScanLines(lines, i + 1, "action_items", res)
      ELSE IF line \in DecisionIn THEN
        ScanLines(lines, i + 1, "key_decisions", res)
      ELSE IF line \in NextIn /\ line \in StepIn THEN
        ScanLines(lines, i + 1, "next_steps", res)
      ELSE IF current_section /= "None" THEN
        IF current_section = "summary" /\ res.summary = ""
        THEN ScanLines(lines, i + 1, current_section,
                       [res EXCEPT !.summary = line])
        ELSE IF current_section \in {"action_items", "key_decisions", "next_steps"}
        THEN ScanLines(lines, i + 1, current_section,
                       AppendToSection(res, current_section, line))
        ELSE ScanLines(lines, i + 1, current_section, res)
      ELSE ScanLines(lines, i + 1, current_section, res)

\* the summary set when the scan found none: the first line longer than 20
\* characters, cut to 200, or a fixed sentence
DefaultSummary(lines) ==
    LET Meaningful(l) == strip(l) /= "" /\ LineLen(strip(l)) > 20
        sentences == SelectSeq(lines, Meaningful)
    IN  IF sentences /= <<>>
        THEN LET first == strip(sentences[1])
             IN  IF LineLen(first) > 200 THEN First200(first) \o "..." ELSE first
        ELSE "Meeting transcript processed successfully."

\* _fallback_parsing(text).  Its except branch is not reached: on a str no
\* statement of the try block raises.
_fallback_parsing(text) ==
    LET scanned == ScanLines(text, 1, "None", FallbackInitialResult)
    IN  IF scanned.summary = ""
        THEN [scanned EXCEPT !.summary = DefaultSummary(text)]
        ELSE scanned

-----------------------------------------------------------------------------
(* AIEngine.process_transcript: the reply of the model *)

\* a dict without keys
EmptyDict == [k \in {} |-> ""]

\* lines that are one whole JSON object
JsonObjectLines == {"{}", "{\"summary\": \"\"}", JsonFullLine, JsonManyLine}

\* json.loads(line), for a line that is one whole JSON object
JsonObjectOf(line) ==
    CASE line = "{}" -> EmptyDict
      [] line = "{\"summary\": \"\"}" -> [summary |-> ""]
      [] line = JsonFullLine ->
            [summary |-> "Budget approved",
             mood |-> [overall |-> "Positive", justification |-> "Productive"],
             action_items |->
                <<[task |-> "Review the budget", assignee |-> "Sarah",
                   assigned_by |-> "Mike", deadline |-> "Friday",
                   priority |-> "Urgent"]>>,
             participants |-> <<"Sarah", "Mike">>,
             key_decisions |-> <<"Ship v2">>,
             next_steps |-> <<"Book the review">>]
      [] line = JsonManyLine ->
            [action_items |->
                <<StrItem("T1"), StrItem("T2"), StrItem("T3"), StrItem("T4"),
                  StrItem("T5"), StrItem("T6"), StrItem("T7"), StrItem("T8"),
                  StrItem("T9"), StrItem("T10"), StrItem("T11")>>,
             key_decisions |-> <<"D1", "D2", "D3", "D4", "D5", "D6">>,
             next_steps |-> <<"N1", "N2", "N3", "N4", "N5", "N6">>]

\* what json.loads raises
JSONDecodeError == [error |-> "JSONDecodeError"]

\* json.loads(json_text): a span of the vocabulary is a JSON document when it
\* is one object line, or "{" and "}" with nothing but white space between
json_loads(json_text) ==
    IF json_text = <<>> THEN JSONDecodeError
    ELSE IF Len(json_text) = 1 /\ json_text[1] \in JsonObjectLines
    THEN JsonObjectOf(json_text[1])
    ELSE IF /\ Len(json_text) >= 2
            /\ json_text[1] = "{"
            /\ json_text[Len(json_text)] = "}"
            /\ \A i \in 2..(Len(json_text) - 1) : IsBlank(json_text[i])
    THEN EmptyDict
    ELSE JSONDecodeError

\* response_text.find('{'): the first line holding '{', -1 when there is none
json_start(text) ==
    LET at == {i \in 1..Len(text) : text[i] \in OpenBraceIn}
    IN  IF at = {} THEN -1 ELSE CHOOSE i \in at : \A j \in at : i <= j

\* response_text.rfind('}') + 1: the last line holding '}', 0 when there is none
json_end(text) ==
    LET at == {i \in 1..Len(text) : text[i] \in CloseBraceIn}
    IN  IF at = {} THEN 0 ELSE CHOOSE i \in at : \A j \in at : i >= j

\* the summary a parsed reply gets when it has none
MissingSummary == "No summary available."

\* EnsureRequiredFields without its last check: next_steps is not filled in
EnsureRequiredFields_NoNextSteps(parsed) ==
    LET r1 == IF "summary" \in DOMAIN parsed THEN parsed
              ELSE parsed @@ ("summary" :> MissingSummary)
        r2 == IF "action_items" \in DOMAIN r1 THEN r1
              ELSE r1 @@ ("action_items" :> <<>>)
        r3 == IF "key_decisions" \in DOMAIN r2 THEN r2
              ELSE r2 @@ ("key_decisions" :> <<>>)
    IN  r3

\* "Ensure all required fields exist"
EnsureRequiredFields(parsed) ==
    LET r1 == IF "summary" \in DOMAIN parsed THEN parsed
              ELSE parsed @@ ("summary" :> MissingSummary)
        r2 == IF "action_items" \in DOMAIN r1 THEN r1
              ELSE r1 @@ ("action_items" :> <<>>)
        r3 == IF "key_decisions" \in DOMAIN r2 THEN r2
              ELSE r2 @@ ("key_decisions" :> <<>>)
        r4 == IF "next_steps" \in DOMAIN r3 THEN r3
              ELSE r3 @@ ("next_steps" :> <<>>)
    IN  r4

\* the try block that parses response_text: the branch taken and what
\* process_transcript returns
ParseResponse(text) ==
    IF json_start(text) /= -1 /\ json_end(text) /= 0
    THEN LET json_text == SubSeq(text, json_start(text), json_end(text))
             parsed == json_loads(json_text)
         IN  IF parsed = JSONDecodeError
             THEN [path |-> "decode_error", result |-> _fallback_parsing(text)]
             ELSE [path |-> "parsed", result |-> EnsureRequiredFields(parsed)]
    ELSE [path |-> "no_json", result |-> _fallback_parsing(text)]

\* context_intro of the prompt
ContextIntro(client, project) ==
    IF client /= "" /\ project /= ""
    THEN "You are analyzing a meeting for the client " \o client
         \o " regarding the project " \o project
         \o ". With this context in mind, analyze the following transcript:\n\n"
    ELSE IF client /= ""
    THEN "You are analyzing a meeting for the client " \o client
         \o ". With this context in mind, analyze the following transcript:\n\n"
    ELSE IF project /= ""
    THEN "You are analyzing a meeting regarding the project " \o project
         \o ". With this context in mind, analyze the following transcript:\n\n"
    ELSE ""

\* the prompt: its fixed text around context_intro and the transcript
Prompt(text, client, project) ==
    [context_intro |-> ContextIntro(client, project), transcript |-> text]

-----------------------------------------------------------------------------
(* create_fallback_analysis of "ps 3/app.py" *)

\* sum(1 for word in line.lower().split() if word in positive_words)
positive_count(line) ==
    CASE line = "Mike: Sarah, that's a great update" -> 1
      [] line = "Mike: Sarah, that&#x27;s a great update" -> 1
      [] line = "Lee: good work by Sarah and Mike" -> 1
      [] OTHER -> 0

\* sum(1 for word in line.lower().split() if word in negative_words)
negative_count(line) ==
    CASE line = "Sarah: I will fix the urgent issue for Mike" -> 2
      [] OTHER -> 0

\* group(1) of the speaker pattern "Name: content" on line.strip(), "" when
\* the line does not match
speaker_of(line) ==
    CASE line = "Sarah: I will fix the urgent issue for Mike" -> "Sarah"
      [] line = "Mike: Sarah, that's a great update" -> "Mike"
      [] line = "Mike: Sarah, that&#x27;s a great update" -> "Mike"
      [] line = "Lee: good work by Sarah and Mike" -> "Lee"
      [] line = "Lee: I think Mike should talk to Sarah" -> "Lee"
      [] OTHER -> ""

\* group(2) of the speaker pattern, stripped
content_of(line) == AfterColon(line)

\* lines whose content holds one of remark_keywords
RemarkKeywordIn ==
    {"Sarah: I will fix the urgent issue for Mike",
     "Mike: Sarah, that's a great update",
     "Mike: Sarah, that&#x27;s a great update",
     "Lee: good work by Sarah and Mike",
     "Lee: I think Mike should talk to Sarah"}

\* the names whose lower case occurs in the lower-cased content of the line
MentionedIn(line) ==
    CASE line = "Sarah: I will fix the urgent issue for Mike" -> {"Mike"}
      [] line = "Mike: Sarah, that's a great update" -> {"Sarah"}
      [] line = "Mike: Sarah, that&#x27;s a great update" -> {"Sarah"}
      [] line = "Lee: good work by Sarah and Mike" -> {"Sarah", "Mike"}
      [] line = "Lee: I think Mike should talk to Sarah" -> {"Sarah", "Mike"}
      [] OTHER -> {}

\* group(1) of the first of direct_patterns that matches the content, "" when
\* none matches
direct_target(line) ==
    CASE line = "Sarah: I will fix the urgent issue for Mike" -> "Mike"
      [] line = "Lee: I think Mike should talk to Sarah" -> "Sarah"
      [] OTHER -> ""

\* lines whose lower case holds one of 'will', 'need to', 'should', 'must',
\* 'task', 'action'
TaskKeywordIn ==
    {"Sarah: I will fix the urgent issue for Mike",
     "Lee: I think Mike should talk to Sarah"}

\* re.findall(r'[A-Z][a-z]+ [A-Z][a-z]+', line): no line of the vocabulary
\* holds two capitalised words in a row
names_in(line) == <<>>

\* the priority the first loop gives a line: 'critical', 'urgent', 'asap',
\* 'immediately' before 'important', 'priority', 'soon'
first_pass_priority(line) ==
    CASE line = "Sarah: I will fix the urgent issue for Mike" -> "high"
      [] OTHER -> "low"

RECURSIVE FirstPass(_, _)
\* the first loop over the lines: an action item per line that holds a task
\* keyword
FirstPass(lines, i) ==
    IF i > Len(lines) THEN <<>>
    ELSE
      LET line == lines[i]
          names == names_in(line)
          item == [task |-> strip(line),
                   assignee |-> IF names /= <<>> THEN names[1] ELSE "Unassigned",
                   assigned_by |-> "Meeting",
                   deadline |-> "Not specified",
                   priority |-> first_pass_priority(line),
                   confidence |-> "Medium"]
      IN  IF line \in TaskKeywordIn
          THEN <<item>> \o FirstPass(lines, i + 1)
          ELSE FirstPass(lines, i + 1)

\* positive_count summed over the lines of the transcript from line i on
RECURSIVE positive_total(_, _)
positive_total(lines, i) ==
    IF i > Len(lines) THEN 0 ELSE positive_count(lines[i]) + positive_total(lines, i + 1)

\* negative_count summed over the lines of the transcript from line i on
RECURSIVE negative_total(_, _)
negative_total(lines, i) ==
    IF i > Len(lines) THEN 0 ELSE negative_count(lines[i]) + negative_total(lines, i + 1)

\* mood and mood_justification with a tie counted as Positive
MoodOf_TiePositive(text) ==
    LET pos == positive_total(text, 1)
        neg == negative_total(text, 1)
    IN  IF pos >= neg
        THEN [overall |-> "Positive",
              justification |-> "Meeting had more positive language and successful outcomes"]
        ELSE [overall |-> "Negative",
              justification |-> "Meeting contained several issues and problems to address"]

\* mood and mood_justification
MoodOf(text) ==
    LET pos == positive_total(text, 1)
        neg == negative_total(text, 1)
    IN  IF pos > neg
        THEN [overall |-> "Positive",
              justification |-> "Meeting had more positive language and successful outcomes"]
        ELSE IF neg > pos
        THEN [overall |-> "Negative",
              justification |-> "Meeting contained several issues and problems to address"]
        ELSE [overall |-> "Neutral",
              justification |-> "Meeting had balanced discussion of topics"]

\* given_to of a remark: the first participant, in the iteration order of the
\* set, that is not the speaker and is named in the content (any of them,
\* since a set has no fixed order), replaced by the target of a direct pattern
GivenToChoices(line, speaker, participants) ==
    LET named == {q \in participants : q /= speaker /\ q \in MentionedIn(line)}
        found == IF named = {} THEN {"General"} ELSE named
    IN  IF direct_target(line) /= "" THEN {direct_target(line)} ELSE found

RECURSIVE RemarkPass(_, _, _)
\* the second loop over the lines: the lists of remarks it may build
RemarkPass(lines, i, participants) ==
    IF i > Len(lines) THEN {<<>>}
    ELSE
      LET line == strip(lines[i])
          speaker == speaker_of(line)
          seen == participants \cup {speaker}
      IN  IF line = "" \/ speaker = ""
          THEN RemarkPass(lines, i + 1, participants)
          ELSE IF line \notin RemarkKeywordIn
          THEN RemarkPass(lines, i + 1, seen)
          ELSE {<<[person |-> speaker, remark |-> content_of(line),
                   given_to |-> g]>> \o rest :
                    g \in GivenToChoices(line, speaker, seen),
                    rest \in RemarkPass(lines, i + 1, seen)}

\* the entry that stands for an empty list of remarks, under another name
GenericRemark_Fallback ==
    [person |-> "Fallback",
     remark |-> "Meeting analysis completed using fallback processing",
     given_to |-> "General"]

\* the entry that stands for an empty list of remarks
GenericRemark ==
    [person |-> "System",
     remark |-> "Meeting analysis completed using fallback processing",
     given_to |-> "General"]

\* most action items of a fallback analysis
ActionItemCap == 10

FirstN(seq, n) == SubSeq(seq, 1, IF Len(seq) < n THEN Len(seq) ELSE n)

\* create_fallback_analysis(transcript, client_name, project_name): the
\* results it may return.  The action items its first loop collects are
\* dropped when action_items is bound to [] again before the second loop.
create_fallback_analysis(text, client, project) ==
    {LET first_items == FirstPass(text, 1)
         \* action_items = [] once more: first_items is not read again
         action_items == IF found = <<>> THEN <<GenericRemark>> ELSE found
     IN  [summary |-> "Meeting for " \o client \o " regarding " \o project
                      \o ". Key topics discussed include project progress, technical implementation, and upcoming deliverables. "
                      \o ToString(Len(action_items)) \o " action items identified.",
          mood |-> MoodOf(text),
          action_items |-> FirstN(action_items, ActionItemCap),
          key_decisions |-> <<"Project timeline and deliverables discussed",
                              "Resource allocation planned",
                              "Next meeting scheduled">>,
          next_steps |-> <<"Follow up on action items",
                           "Prepare progress report",
                           "Schedule next review meeting">>] :
     found \in RemarkPass(text, 1, {})}

-----------------------------------------------------------------------------
(* classify_task_priority of "ps 3/app.py" *)

\* any(keyword in s.lower() for keyword in high_keywords)
HighKeywordIn ==
    {"Sarah: I will fix the urgent issue for Mike",
     "Fix the login bug ASAP",
     "Important and critical fix",
     "We should order mustard"}

\* any(keyword in s.lower() for keyword in medium_keywords)
MediumKeywordIn ==
    {"This is important",
     "Important and critical fix",
     "We should order mustard",
     "It is a priority"}

\* the pairs (a, b) with a high keyword in (a + " " + b).lower() that lies
\* across the blank between them: "required by"
HighKeywordAcross ==
    {<<"Send what is required", "by Friday we ship">>}

\* the same for the medium keywords: no pair of the vocabulary
MediumKeywordAcross == {}

\* any(keyword in task_lower for keyword in high_keywords), task_lower
\* being (task_text + " " + context).lower()
HasHighKeyword(text, context) ==
    \/ text \in HighKeywordIn
    \/ \E i \in 1..Len(context) : context[i] \in HighKeywordIn
    \/ <<text, context[1]>> \in HighKeywordAcross

\* any(keyword in task_lower for keyword in medium_keywords)
HasMediumKeyword(text, context) ==
    \/ text \in MediumKeywordIn
    \/ \E i \in 1..Len(context) : context[i] \in MediumKeywordIn
    \/ <<text, context[1]>> \in MediumKeywordAcross

\* classify_task_priority with its two checks in the other order
classify_task_priority_MediumFirst(text, context) ==
    IF HasMediumKeyword(text, context) THEN "medium"
    ELSE IF HasHighKeyword(text, context) THEN "high"
    ELSE "low"

\* classify_task_priority(task_text, context)
classify_task_priority(text, context) ==
    IF HasHighKeyword(text, context) THEN "high"
    ELSE IF HasMediumKeyword(text, context) THEN "medium"
    ELSE "low"

-----------------------------------------------------------------------------
(* The rows of "ps 3/models.py" and the block of the handler that saves *)

\* a database without rows
EmptyDatabase == [projects |-> {}, summaries |-> <<>>, tasks |-> <<>>]

\* the Project row of the request's client and project, saved before the
\* request in a database whose created_by columns were added by migrations.py
\* (created_by is the id of a user, written as a str as None is)
ExistingProject ==
    [id |-> 1, name |-> "R&amp;D", client |-> "Acme", created_by |-> "1"]

\* the database a request finds.  Tables made by db.create_all() enforce
\* nullable=False on created_by; no row of Project can be saved by the
\* application there.  Tables whose created_by was added by migrations.py
\* take rows without it.
Databases ==
    {[created_by_required |-> TRUE, db |-> EmptyDatabase],
     [created_by_required |-> FALSE, db |-> EmptyDatabase],
     [created_by_required |-> FALSE,
      db |-> [EmptyDatabase EXCEPT !.projects = {ExistingProject}]]}

\* the empty database whose created_by columns were added by migrations.py
MigratedDatabase == [created_by_required |-> FALSE, db |-> EmptyDatabase]

\* replies that differ in what the handler saves: action items that are
\* dicts, action items that are str, no action item, no JSON
StoreReplies ==
    {<<JsonFullLine>>, <<JsonManyLine>>, <<"{}">>, <<"{">>,
     <<"Action items:", "- Review the budget">>}

\* the texts generate_content may return, by the name reply_space holds
RepliesOf(space) ==
    CASE space = "every reply" -> Replies
      [] space = "replies that differ in what is saved" -> StoreReplies
      [] OTHER -> {}

\* an element of action_items is a dict, not a str
IsDict(item) == "str" \notin DOMAIN item

\* d.get(key, default)
Get(d, key, default) == IF key \in DOMAIN d THEN d[key] ELSE default

\* s.lower(), for the priority labels
lower(s) ==
    CASE s = "Urgent" -> "urgent"
      [] s = "Low" -> "low"
      [] OTHER -> s

\* a final priority that keeps the priority of the extraction
FinalPriority_AsExtracted(classified_priority, original_priority) ==
    original_priority

\* final_priority: "Use the more specific classification"
FinalPriority(classified_priority, original_priority) ==
    IF classified_priority /= "normal" THEN classified_priority
    ELSE original_priority

RECURSIVE TaskLoop(_, _, _, _)
\* the loop over result['action_items']: a TaskAssignment per element, an
\* alert for each 'high' one, until an element that is no dict raises.  The
\* summary was added to the session and not flushed, so summary.id is None.
TaskLoop(items, i, text, acc) ==
    IF i > Len(items) THEN acc
    ELSE
      LET task_data == items[i] IN
      IF ~IsDict(task_data) THEN [acc EXCEPT !.raised = "AttributeError"]
      ELSE
        LET original_priority == lower(Get(task_data, "priority", "Low"))
            classified_priority ==
                classify_task_priority(Get(task_data, "task", ""), text)
            final_priority ==
                FinalPriority(classified_priority, original_priority)
            task == [task_description |-> Get(task_data, "task", ""),
                     priority |-> final_priority,
                     status |-> "pending",
                     project_id |-> acc.project_id,
                     meeting_id |-> "None"]
        IN  TaskLoop(items, i + 1, text,
                     [acc EXCEPT
                        !.tasks = Append(@, task),
                        !.alerts = IF final_priority = "high"
                                   THEN Append(@, task_data) ELSE @])

\* a rollback that leaves the rows that were flushed
Rollback_KeepsFlushed(rows, flushed) ==
    [rows EXCEPT !.projects = @ \cup flushed]

\* db.session.rollback(): the rows of the database after it, the flushed
\* rows of the open transaction being undone
Rollback(rows, flushed) == rows

\* the try block "Find or create project ... db.session.commit()" and its
\* except clause: the rows committed, the alerts sent, and the exception the
\* block ended with ("" when it committed).  After an exception the session
\* is rolled back and the database is as it was.
SaveRows(res, text, client, project, rows, required, commit_raises) ==
    LET found == {p \in rows.projects : p.name = project /\ p.client = client}
        new_project == [id |-> Cardinality(rows.projects) + 1, name |-> project,
                        client |-> client, created_by |-> "None"]
        project_row == IF found = {} THEN new_project ELSE CHOOSE p \in found : TRUE
        summary == [id |-> Len(rows.summaries) + 1,
                    transcript |-> text,
                    ai_result |-> res,
                    meeting_type |-> "Business Meeting",
                    project_id |-> project_row.id]
        items == Get(res, "action_items", <<>>)
        looped == TaskLoop(items, 1, text,
                           [tasks |-> <<>>, alerts |-> <<>>, raised |-> "",
                            project_id |-> project_row.id])
        flushed == IF found = {} THEN {new_project} ELSE {}
    IN  IF found = {} /\ required
        THEN [db |-> Rollback(rows, {}), alerts |-> <<>>,
              error |-> "IntegrityError"]
        ELSE IF looped.raised /= ""
        THEN [db |-> Rollback(rows, flushed), alerts |-> looped.alerts,
              error |-> looped.raised]
        ELSE IF required /\ looped.tasks /= <<>>
        THEN [db |-> Rollback(rows, flushed), alerts |-> looped.alerts,
              error |-> "IntegrityError"]
        ELSE IF commit_raises
        THEN [db |-> Rollback(rows, flushed), alerts |-> looped.alerts,
              error |-> "OperationalError"]
        ELSE [db |-> [projects |-> rows.projects \cup {project_row},
                      summaries |-> Append(rows.summaries, summary),
                      tasks |-> rows.tasks \o looped.tasks],
              alerts |-> looped.alerts,
              error |-> ""]

-----------------------------------------------------------------------------
(* The /api/summarize handler of "ps 3/app.py" *)

\* result before the handler has one
NoResult == [pending |-> "result"]

\* most characters of a sanitized transcript and of a sanitized name
TranscriptMaxLength == 50000
NameMaxLength == 100

\* the key AIEngine.__init__ falls back on when the environment has none
EmbeddedKey == "the key written in ai_engine.py"

\* data when request.get_json() returned None or an empty dict
NoData == [no |-> "data"]

\* values of GEMINI_API_KEY in the environment, "None" when it is not set
EnvironmentKeys == {"None", "key of the environment"}

\* no engine was built and nothing was answered yet
NothingProcessed ==
    /\ engine_model = "unbuilt"
    /\ engine_key = "unset"
    /\ calls = <<>>
    /\ response_text = EmptyText
    /\ pt_outcome = "pending"
    /\ path = "none"
    /\ result = NoResult
    /\ status = 0

\* nothing was saved or sent yet
NothingSaved ==
    /\ alerts = <<>>
    /\ db_error = "unsaved"

\* no direct call of create_fallback_analysis or classify_task_priority
NothingCalled ==
    /\ repeat = NoResult
    /\ task_text = ""
    /\ priority = "unclassified"

\* the module's model is as the start of the application left it
NothingShared ==
    /\ model_writer = "startup"
    /\ model_seen = "unread"
    /\ other_seen = "unread"

\* the addresses requests come from
ClientIPs == {"10.0.0.1", "10.0.0.2"}

\* request.endpoint of /api/summarize: the route names no endpoint, so it is
\* the name of the view function
SummarizeEndpoint == "summarize_meeting"

\* key = f"endpoint:{endpoint}:{get_client_ip()}"
RateKey(endpoint, ip) == "endpoint:" \o endpoint \o ":" \o ip

RateKeys == {RateKey(SummarizeEndpoint, ip) : ip \in ClientIPs}

\* RateLimiter.requests with no deque, or with empty deques only: is_allowed
\* makes the deque of a key it does not find
NoRequests == [key \in RateKeys |-> <<>>]

\* no template was asked for
NoTemplate ==
    /\ template_id = 0
    /\ template_context = ""

\* rate_limiter = RateLimiter() at the start of the process
NoTraffic ==
    /\ now = 0
    /\ requests = NoRequests
    /\ last_cleanup = 0
    /\ last_answer = [key |-> "", outcome |-> "none"]

\* a request arrives: its body, the module's model as initialize_gemini left
\* it, the environment, the database and what the generative model may reply
InitRequest(texts, keys, databases, answers) ==
    /\ pc = "request"
    /\ \/ /\ transcript \in texts
          /\ client_name \in ClientNames
          /\ project_name \in ProjectNames
          /\ data = [transcript |-> transcript, client_name |-> client_name,
                     project_name |-> project_name]
       \/ /\ data = NoData
          /\ transcript = EmptyText
          /\ client_name = ""
          /\ project_name = ""
    /\ model \in {"None", "gemini-1.5-flash"}
    /\ api_key_env \in keys
    /\ \E found \in databases :
        /\ created_by_required = found.created_by_required
        /\ db = found.db
    /\ reply_space = answers
    /\ NothingProcessed
    /\ NothingSaved
    /\ NothingCalled
    /\ NothingShared
    /\ NoTraffic

\* one request to a deployment that has its GEMINI_API_KEY and whose tables
\* take the rows the handler saves
Init ==
    /\ InitRequest(Transcripts, {"key of the environment"}, {MigratedDatabase},
                   "every reply")
    /\ NoTemplate
    /\ other_pc = "absent"

\* a validation that looks at the transcript only
ValidationError_TranscriptOnly(text, client, project) ==
    IF StripText(text) = EmptyText THEN "Transcript is required" ELSE ""

\* the error the validation answers 400 with, "" when the fields pass
ValidationError(text, client, project) ==
    LET t == StripText(text)
        c == StripName(client)
        p == StripName(project)
    IN  IF t = EmptyText THEN "Transcript is required"
        ELSE IF c = "" THEN "Client name is required"
        ELSE IF p = "" THEN "Project name is required"
        ELSE IF \/ sanitize_string(t, TranscriptMaxLength) = EmptyText
                \/ SanitizeName(c, NameMaxLength) = ""
                \/ SanitizeName(p, NameMaxLength) = ""
        THEN "Please fill in all required fields: Client Name, Project Name, and Meeting Transcript"
        ELSE ""

\* "if not data": 400
RejectNoData ==
    /\ pc = "request"
    /\ data = NoData
    /\ result' = [error |-> "No JSON data provided"]
    /\ status' = 400
    /\ pc' = "done"
    /\ UNCHANGED <<transcript, client_name, project_name, model, engine_model,
                   calls, response_text, pt_outcome, path, data, engine_key,
                   env_vars, template_vars, rate_vars, db_vars, call_vars, other_vars, share_vars>>

\* a required field is missing or empty: 400
RejectRequest ==
    /\ pc = "request"
    /\ data /= NoData
    /\ ValidationError(transcript, client_name, project_name) /= ""
    /\ result' = [error |-> ValidationError(transcript, client_name, project_name)]
    /\ status' = 400
    /\ pc' = "done"
    /\ UNCHANGED <<transcript, client_name, project_name, model, engine_model,
                   calls, response_text, pt_outcome, path, data, engine_key,
                   env_vars, template_vars, rate_vars, db_vars, call_vars, other_vars, share_vars>>

\* the fields are stripped and sanitized
AcceptRequest ==
    /\ pc = "request"
    /\ data /= NoData
    /\ ValidationError(transcript, client_name, project_name) = ""
    /\ transcript' = sanitize_string(StripText(transcript), TranscriptMaxLength)
    /\ client_name' = SanitizeName(StripName(client_name), NameMaxLength)
    /\ project_name' = SanitizeName(StripName(project_name), NameMaxLength)
    /\ pc' = "validated"
    /\ UNCHANGED <<model, engine_model, calls, response_text, pt_outcome,
                   path, result, status, data, engine_key, env_vars, template_vars, rate_vars, db_vars,
                   call_vars, other_vars, share_vars>>

\* the handle "Initialize model with direct API key if not initialized"
\* assigns to the module's model
LazyModel == "gemini-pro"

\* "if not model": the request reads the module's model
InitializeModel ==
    /\ pc = "validated"
    /\ model_seen' = model_writer
    /\ pc' = IF model = "None" THEN "model_missing" ELSE "model_ready"
    /\ UNCHANGED <<transcript, client_name, project_name, model, engine_model,
                   calls, response_text, pt_outcome, path, result, status,
                   data, engine_key, env_vars, template_vars, rate_vars, db_vars, call_vars, other_vars,
                   model_writer>>

\* genai.configure and "model = genai.GenerativeModel('gemini-pro')": the
\* request that found no model assigns one
AssignModel ==
    /\ pc = "model_missing"
    /\ model' = LazyModel
    /\ model_writer' = "this"
    /\ pc' = "model_ready"
    /\ UNCHANGED <<transcript, client_name, project_name, engine_model,
                   calls, response_text, pt_outcome, path, result, status,
                   data, engine_key, env_vars, template_vars, rate_vars, db_vars, call_vars, other_vars,
                   model_seen>>

\* the rows of meeting_templates the start of the application creates, by id
MeetingTemplates ==
    [id \in {1, 2} |->
        IF id = 1
        THEN [name |-> "Sales Call",
              default_prompt |-> "Focus on sales objectives, client needs, objections, and next steps. Prioritize deal progression and relationship building."]
        ELSE [name |-> "Project Review",
              default_prompt |-> "Emphasize project progress, timeline adherence, resource allocation, and risk mitigation. Focus on deliverables and deadlines."]]

\* values of template_id in a request body: 0 for a body without one (None
\* and 0 are falsy alike), the id of a row, and an id of no row
TemplateIds == {0, 1, 2, 7}

\* template_context of a template that was found
TemplateContext(template) ==
    "\n\nMEETING TEMPLATE: " \o template.name
    \o "\nTEMPLATE FOCUS: " \o template.default_prompt
    \o "\n\nPlease apply this template's focus when analyzing the meeting."

\* "Get template if provided": template_context is "" unless template_id is
\* truthy, the query returns a row and raises nothing
GetTemplate ==
    /\ pc = "model_ready"
    /\ \E raised \in BOOLEAN :
        template_context' =
            IF template_id = 0 \/ raised \/ template_id \notin DOMAIN MeetingTemplates
            THEN ""
            ELSE TemplateContext(MeetingTemplates[template_id])
    /\ pc' = "prepared"
    /\ UNCHANGED <<transcript, client_name, project_name, model, engine_model,
                   calls, response_text, pt_outcome, path, result, status,
                   data, engine_key, env_vars, db_vars, call_vars, other_vars,
                   share_vars, template_id, rate_vars>>

\* the key AIEngine.__init__ configures genai with
ConfiguredKey(env_key) == IF env_key = "None" THEN EmbeddedKey ELSE env_key

\* AIEngine(): the test request of the constructor succeeds or raises, and a
\* constructor that caught an exception leaves self.model None
ConstructEngine ==
    /\ pc = "prepared"
    /\ engine_key' = ConfiguredKey(api_key_env)
    /\ \E raised \in BOOLEAN :
        /\ calls' = Append(calls, [by |-> "__init__", prompt |-> "Test",
                                   raised |-> raised])
        /\ engine_model' = IF raised THEN "None" ELSE "gemini-1.5-flash"
    /\ pc' = "engine"
    /\ UNCHANGED <<transcript, client_name, project_name, model, response_text,
                   pt_outcome, path, result, status, data, env_vars, template_vars, rate_vars, db_vars,
                   call_vars, other_vars, share_vars>>

\* NoModelReturn that hands back the empty result without reading the text
NoModelReturn_Unparsed(text) == FallbackInitialResult

\* what process_transcript returns when self.model is None
NoModelReturn(text) == _fallback_parsing(text)

\* process_transcript with no model
ProcessWithoutModel ==
    /\ pc = "engine"
    /\ engine_model = "None"
    /\ result' = NoModelReturn(transcript)
    /\ pt_outcome' = "returned"
    /\ path' = "no_model"
    /\ pc' = "analysed"
    /\ UNCHANGED <<transcript, client_name, project_name, model, engine_model,
                   calls, response_text, status, data, engine_key, env_vars, template_vars, rate_vars,
                   db_vars, call_vars, other_vars, share_vars>>

\* process_transcript when generate_content, or reading response.text,
\* raises: the except clause logs and raises again
ProcessModelRaises ==
    /\ pc = "engine"
    /\ engine_model /= "None"
    /\ calls' = Append(calls, [by |-> "process_transcript",
                               prompt |-> Prompt(transcript, client_name, project_name),
                               raised |-> TRUE])
    /\ pt_outcome' = "raised"
    /\ pc' = "engine_failed"
    /\ UNCHANGED <<transcript, client_name, project_name, model, engine_model,
                   response_text, path, result, status, data, engine_key,
                   env_vars, template_vars, rate_vars, db_vars, call_vars, other_vars, share_vars>>

\* ProcessReply whose fallback reads the transcript instead of the reply
ProcessReply_OnTranscript(text, reply) ==
    LET stripped == StripText(reply)
        parsed == ParseResponse(stripped)
    IN  [response_text |-> stripped, path |-> parsed.path,
         result |-> IF parsed.path = "parsed" THEN parsed.result
                    ELSE _fallback_parsing(text)]

\* process_transcript from the reply on: response_text is parsed, or handed
\* to _fallback_parsing
ProcessReply(text, reply) ==
    LET stripped == StripText(reply)
    IN  [response_text |-> stripped] @@ ParseResponse(stripped)

\* process_transcript when the model replies
ProcessModelReplies ==
    /\ pc = "engine"
    /\ engine_model /= "None"
    /\ \E reply \in RepliesOf(reply_space) :
        LET done == ProcessReply(transcript, reply)
        IN  /\ response_text' = done.response_text
            /\ result' = done.result
            /\ path' = done.path
    /\ calls' = Append(calls, [by |-> "process_transcript",
                               prompt |-> Prompt(transcript, client_name, project_name),
                               raised |-> FALSE])
    /\ pt_outcome' = "returned"
    /\ pc' = "analysed"
    /\ UNCHANGED <<transcript, client_name, project_name, model, engine_model,
                   status, data, engine_key, env_vars, template_vars, rate_vars, db_vars, call_vars,
                   other_vars, share_vars>>

\* OnEngineError without the except clause around the engine: the exception
\* reaches the handler's last except clause, which answers 500
OnEngineError_Unhandled(text, client, project) ==
    {[status |-> 500,
      result |-> [error |-> "An internal server error occurred"]]}

\* the except clause around the engine: what the handler goes on with
OnEngineError(text, client, project) ==
    {[status |-> 0, result |-> r] :
        r \in create_fallback_analysis(text, client, project)}

\* the handler catches what process_transcript raised
HandleEngineError ==
    /\ pc = "engine_failed"
    /\ \E next \in OnEngineError(transcript, client_name, project_name) :
        /\ result' = next.result
        /\ status' = next.status
        /\ pc' = IF next.status = 0 THEN "analysed" ELSE "done"
    /\ path' = "create_fallback"
    /\ UNCHANGED <<transcript, client_name, project_name, model, engine_model,
                   calls, response_text, pt_outcome, data, engine_key,
                   env_vars, template_vars, rate_vars, db_vars, call_vars, other_vars, share_vars>>

\* "Find or create project" to the end of its except clause: the rows are
\* committed, or the session is rolled back and the handler goes on; then
\* "return jsonify(result)"
Respond ==
    /\ pc = "analysed"
    /\ \E commit_raises \in BOOLEAN :
        LET saved == SaveRows(result, transcript, client_name, project_name,
                              db, created_by_required, commit_raises)
        IN  /\ db' = saved.db
            /\ alerts' = saved.alerts
            /\ db_error' = saved.error
    /\ status' = 200
    /\ pc' = "done"
    /\ UNCHANGED <<transcript, client_name, project_name, model, engine_model,
                   calls, response_text, pt_outcome, path, result, data,
                   engine_key, env_vars, template_vars, rate_vars, call_vars, other_vars, share_vars>>

Next ==
    \/ RejectNoData
    \/ RejectRequest
    \/ AcceptRequest
    \/ InitializeModel
    \/ AssignModel
    \/ GetTemplate
    \/ ConstructEngine
    \/ ProcessWithoutModel
    \/ ProcessModelRaises
    \/ ProcessModelReplies
    \/ HandleEngineError
    \/ Respond

Spec == Init /\ [][Next]_vars

-----------------------------------------------------------------------------
(* The engine used directly, as "ps 3/tests/test_ai_engine.py" uses it:     *)
(* AIEngine() and process_transcript(transcript, client_name, project_name) *)
(* on a text that no handler has validated                                  *)

\* what a request is made of, and what the engine of a request leaves
input_vars == <<transcript, client_name, project_name, data>>

engine_vars == <<engine_model, engine_key, calls, response_text, pt_outcome,
                 path>>

InitEngine ==
    /\ pc = "prepared"
    /\ data = NoData
    /\ transcript \in Transcripts
    /\ client_name = "Acme"
    /\ project_name = "R&D"
    /\ model = "None"
    /\ api_key_env \in EnvironmentKeys
    /\ created_by_required = FALSE
    /\ reply_space = "every reply"
    /\ db = EmptyDatabase
    /\ NothingProcessed
    /\ NothingSaved
    /\ NothingCalled
    /\ NothingShared
    /\ NoTemplate
    /\ NoTraffic
    /\ other_pc = "absent"

NextEngine ==
    \/ ConstructEngine
    \/ ProcessWithoutModel
    \/ ProcessModelRaises
    \/ ProcessModelReplies

SpecEngine == InitEngine /\ [][NextEngine]_vars

-----------------------------------------------------------------------------
(* create_fallback_analysis called twice on the same arguments, the second *)
(* time in another process of the server (Python seeds the hashes of str    *)
(* anew in every process, so a set of names is iterated in another order)   *)

InitFallback ==
    /\ pc = "fallback"
    /\ data = NoData
    /\ transcript \in RemarkTranscripts
    /\ client_name \in ClientNames
    /\ project_name \in ProjectNames
    /\ model = "None"
    /\ api_key_env = "None"
    /\ created_by_required = FALSE
    /\ reply_space = "no reply"
    /\ db = EmptyDatabase
    /\ NothingProcessed
    /\ NothingSaved
    /\ NothingCalled
    /\ NothingShared
    /\ NoTemplate
    /\ NoTraffic
    /\ other_pc = "absent"

\* result = create_fallback_analysis(transcript, client_name, project_name)
CallFallback ==
    /\ pc = "fallback"
    /\ result' \in create_fallback_analysis(transcript, client_name, project_name)
    /\ pc' = "fallback_once"
    /\ UNCHANGED <<input_vars, model, engine_vars, status, env_vars, template_vars, rate_vars, db_vars,
                   call_vars, other_vars, share_vars>>

\* the same call in the other process: its sets are iterated in an order of
\* their own
CallFallbackAgain ==
    /\ pc = "fallback_once"
    /\ repeat' \in create_fallback_analysis(transcript, client_name, project_name)
    /\ pc' = "fallback_twice"
    /\ UNCHANGED <<input_vars, model, engine_vars, result, status, env_vars, template_vars, rate_vars,
                   db_vars, task_text, priority, other_vars, share_vars>>

NextFallback ==
    \/ CallFallback
    \/ CallFallbackAgain

SpecFallback == InitFallback /\ [][NextFallback]_vars

-----------------------------------------------------------------------------
(* classify_task_priority called on a task text and a context *)

InitPriority ==
    /\ pc = "classify"
    /\ data = NoData
    /\ transcript \in Contexts
    /\ task_text \in TaskTexts
    /\ client_name = ""
    /\ project_name = ""
    /\ model = "None"
    /\ api_key_env = "None"
    /\ created_by_required = FALSE
    /\ reply_space = "no reply"
    /\ db = EmptyDatabase
    /\ NothingProcessed
    /\ NothingSaved
    /\ repeat = NoResult
    /\ priority = "unclassified"
    /\ NothingShared
    /\ NoTemplate
    /\ NoTraffic
    /\ other_pc = "absent"

\* priority = classify_task_priority(task_text, context)
ClassifyTask ==
    /\ pc = "classify"
    /\ priority' = classify_task_priority(task_text, transcript)
    /\ pc' = "classified"
    /\ UNCHANGED <<input_vars, model, engine_vars, result, status, env_vars, template_vars, rate_vars,
                   db_vars, repeat, task_text, other_vars, share_vars>>

NextPriority == ClassifyTask

SpecPriority == InitPriority /\ [][NextPriority]_vars

-----------------------------------------------------------------------------
(* Two requests at once.  Of the second request the model has the          *)
(* statements that read and assign the module's model; everything else it  *)
(* does is done to locals of its own.                                      *)

InitConcurrent ==
    /\ InitRequest(Transcripts, {"key of the environment"}, {MigratedDatabase},
                   "every reply")
    /\ NoTemplate
    /\ other_pc = "validated"

\* "if not model" of the second request
OtherReadsModel ==
    /\ other_pc = "validated"
    /\ other_seen' = model_writer
    /\ other_pc' = IF model = "None" THEN "model_missing" ELSE "prepared"
    /\ UNCHANGED <<pc, input_vars, model, engine_vars, result, status,
                   env_vars, template_vars, rate_vars, db_vars, call_vars, share_vars>>

\* "model = genai.GenerativeModel('gemini-pro')" of the second request
OtherAssignsModel ==
    /\ other_pc = "model_missing"
    /\ model' = LazyModel
    /\ model_writer' = "other"
    /\ other_pc' = "prepared"
    /\ UNCHANGED <<pc, input_vars, engine_vars, result, status, env_vars, template_vars, rate_vars,
                   db_vars, call_vars, other_seen, model_seen>>

NextConcurrent ==
    \/ Next
    \/ OtherReadsModel
    \/ OtherAssignsModel

SpecConcurrent == InitConcurrent /\ [][NextConcurrent]_vars

-----------------------------------------------------------------------------
(* A request whose transcript has more than 100,000 characters *)

InitLong ==
    /\ InitRequest(LongTranscripts, {"key of the environment"},
                   {MigratedDatabase}, "every reply")
    /\ NoTemplate
    /\ other_pc = "absent"

SpecLong == InitLong /\ [][Next]_vars

-----------------------------------------------------------------------------
(* A request to each of the databases, with the replies that differ in what *)
(* the handler saves                                                        *)

InitStore ==
    /\ InitRequest(Transcripts, {"key of the environment"}, Databases,
                   "replies that differ in what is saved")
    /\ NoTemplate
    /\ other_pc = "absent"

SpecStore == InitStore /\ [][Next]_vars

-----------------------------------------------------------------------------
(* A request that names a meeting template, or none *)

InitTemplate ==
    /\ InitRequest(Transcripts, {"key of the environment"}, {MigratedDatabase},
                   "replies that differ in what is saved")
    /\ template_id \in TemplateIds
    /\ template_context = ""
    /\ other_pc = "absent"

SpecTemplate == InitTemplate /\ [][Next]_vars

-----------------------------------------------------------------------------
(* api_rate_limit of rate_limiter.py around /api/summarize: requests of two *)
(* clients over time.  What the handler does with a request that is let     *)
(* through is in the specifications above.                                  *)

\* RATE_LIMITS['api/summarize']['requests']
SummarizeRequests == 10

\* RATE_LIMITS['default']['requests']
DefaultRequests == 100

\* 'window' of every entry of RATE_LIMITS
WindowSeconds == 3600

\* RateLimiter.cleanup_interval
CleanupInterval == 3600

\* the age, in seconds, _cleanup_old_entries drops the times of
CleanupAge == 86400

\* the entries of RATE_LIMITS for /api/summarize and for any other endpoint
RATE_LIMITS ==
    [name \in {"api/summarize", "default"} |->
        IF name = "api/summarize"
        THEN [requests |-> SummarizeRequests, window |-> WindowSeconds]
        ELSE [requests |-> DefaultRequests, window |-> WindowSeconds]]

\* RATE_LIMITS.get(endpoint, RATE_LIMITS['default'])
LimitConfig(endpoint) ==
    IF endpoint \in DOMAIN RATE_LIMITS THEN RATE_LIMITS[endpoint]
    ELSE RATE_LIMITS["default"]

RECURSIVE PopOld(_, _)
\* while request_times and request_times[0] < cutoff_time: popleft()
PopOld(request_times, cutoff_time) ==
    IF request_times /= <<>> /\ request_times[1] < cutoff_time
    THEN PopOld(Tail(request_times), cutoff_time)
    ELSE request_times

\* _cleanup_old_entries(): times older than 24 hours are dropped (and the
\* keys of empty deques deleted)
CleanupOldEntries(reqs, current_time) ==
    [key \in DOMAIN reqs |-> PopOld(reqs[key], current_time - CleanupAge)]

\* RateLimiter.is_allowed(key, limit, window) at current_time: whether the
\* request is allowed, and requests and last_cleanup after the call
is_allowed(key, limit, window, current_time, reqs, cleaned) ==
    LET due == current_time - cleaned > CleanupInterval
        kept == IF due THEN CleanupOldEntries(reqs, current_time) ELSE reqs
        request_times == PopOld(kept[key], current_time - window)
        allowed == Len(request_times) < limit
    IN  [allowed |-> allowed,
         requests |-> [kept EXCEPT ![key] = IF allowed
                                            THEN Append(request_times, current_time)
                                            ELSE request_times],
         last_cleanup |-> IF due THEN current_time ELSE cleaned]

\* most ticks of the clock
MaxTicks == 2

\* most requests of the second client in the deque of its key
MaxOtherRequests == 1

\* seconds between two readings of the clock
TickSeconds == 3600

InitRate ==
    /\ pc = "serving"
    /\ data = NoData
    /\ transcript = EmptyText
    /\ client_name = ""
    /\ project_name = ""
    /\ model = "None"
    /\ api_key_env = "None"
    /\ created_by_required = FALSE
    /\ reply_space = "no reply"
    /\ db = EmptyDatabase
    /\ NothingProcessed
    /\ NothingSaved
    /\ NothingCalled
    /\ NothingShared
    /\ NoTemplate
    /\ NoTraffic
    /\ other_pc = "absent"

\* time passes
Tick ==
    /\ now < MaxTicks * TickSeconds
    /\ now' = now + TickSeconds
    /\ UNCHANGED <<pc, input_vars, model, engine_vars, result, status,
                   env_vars, db_vars, call_vars, other_vars, share_vars,
                   template_vars, requests, last_cleanup, last_answer>>

\* decorated_function of api_rate_limit for a request of a client: 429, or
\* the handler is called
ApiRateLimit ==
    /\ \E ip \in ClientIPs :
        LET endpoint == SummarizeEndpoint
            limit_config == LimitConfig(endpoint)
            key == RateKey(endpoint, ip)
            checked == is_allowed(key, limit_config.requests,
                                  limit_config.window, now, requests,
                                  last_cleanup)
        IN  /\ ip = "10.0.0.2" => Len(requests[key]) < MaxOtherRequests
            /\ requests' = checked.requests
            /\ last_cleanup' = checked.last_cleanup
            /\ last_answer' = [key |-> key,
                               outcome |-> IF checked.allowed THEN "handler"
                                           ELSE "429"]
    /\ UNCHANGED <<pc, input_vars, model, engine_vars, result, status,
                   env_vars, db_vars, call_vars, other_vars, share_vars,
                   template_vars, now>>

NextRate ==
    \/ Tick
    \/ ApiRateLimit

SpecRate == InitRate /\ [][NextRate]_vars

-----------------------------------------------------------------------------
(* Properties *)

\* the handler has answered 200
Answered == pc = "done" /\ status = 200

\* the model replied and process_transcript went on to parse the reply
Replied == path \in {"parsed", "no_json", "decode_error"}

\* the span of response_text from its first '{' to its last '}'
HasSpan == json_start(response_text) /= -1 /\ json_end(response_text) /= 0

JsonText == SubSeq(response_text, json_start(response_text), json_end(response_text))

RequiredFields == {"summary", "action_items", "key_decisions", "next_steps"}

RequiredLists == {"action_items", "key_decisions", "next_steps"}

C2_ExactlyOneModelCall ==
    (Answered /\ engine_model /= "None") => Len(calls) = 1

\* C3: with self.model None, process_transcript makes no model call and
\* returns exactly _fallback_parsing(transcript); the model is None exactly
\* when the constructor's test request raised
C3_NoModelFallsBack ==
    /\ path = "no_model" =>
            /\ result = _fallback_parsing(transcript)
            /\ \A i \in 1..Len(calls) : calls[i].by /= "process_transcript"
            /\ engine_model = "None"
    /\ (engine_model = "None" /\ pc \in {"analysed", "done"}) =>
            /\ path = "no_model"
            /\ calls[Len(calls)].raised

\* C3 witness: a request answered without a model, whose transcript yields
\* an action item
C3_Witness ==
    Answered /\ path = "no_model" /\ result.action_items /= <<>>

\* C4: when response_text has no span from a first '{' to a last '}', or the
\* span is no valid JSON, process_transcript returns _fallback_parsing of
\* response_text, and in no other case
C4_FallbackReadsReply ==
    Replied =>
        LET unusable == ~HasSpan \/ json_loads(JsonText) = JSONDecodeError
        IN  /\ unusable => result = _fallback_parsing(response_text)
            /\ unusable <=> path \in {"no_json", "decode_error"}
            /\ pt_outcome = "returned"

\* C4 witness: a reply whose span is no valid JSON, answered with a result
\* that the transcript would not have given
C4_Witness ==
    /\ Answered
    /\ path = "decode_error"
    /\ result /= _fallback_parsing(transcript)

\* C5 as stated: when the model call raises, the result is the one returned
\* when no model is configured, for the same transcript
C5_RaiseEqualsNoModel ==
    path = "create_fallback" => result = NoModelReturn(transcript)

\* C6 (as amended): after a successful parse the result holds the four
\* required fields; a missing summary is "No summary available.", a missing
\* list is [], and every field of the parsed object is returned unchanged
C6_BackfillDefaults ==
    path = "parsed" =>
        LET parsed == json_loads(JsonText)
        IN  /\ DOMAIN result = DOMAIN parsed \cup RequiredFields
            /\ \A k \in DOMAIN parsed : result[k] = parsed[k]
            /\ "summary" \notin DOMAIN parsed => result.summary = MissingSummary
            /\ \A k \in RequiredLists \ DOMAIN parsed : result[k] = <<>>

\* C6 witness: a parsed reply without a summary and without next_steps
C6_Witness ==
    /\ Answered
    /\ path = "parsed"
    /\ {"summary", "next_steps"} \cap DOMAIN json_loads(JsonText) = {}

\* C6 as stated: a missing summary is set to ""
C6_EmptyStringDefault ==
    path = "parsed" =>
        LET parsed == json_loads(JsonText)
        IN  /\ DOMAIN result = DOMAIN parsed \cup RequiredFields
            /\ \A k \in DOMAIN parsed : result[k] = parsed[k]
            /\ "summary" \notin DOMAIN parsed => result.summary = ""
            /\ \A k \in RequiredLists \ DOMAIN parsed : result[k] = <<>>

\* C7 as stated: the summary of every returned result is non-empty
C7_SummaryNeverEmpty == Answered => result.summary /= ""

\* C8 as stated: action_items has at most 10 elements, key_decisions and
\* next_steps at most 5
C8_BoundedLists ==
    Answered =>
        /\ Len(result.action_items) <= 10
        /\ Len(result.key_decisions) <= 5
        /\ Len(result.next_steps) <= 5

\* a value that is absent or null
IsNull(value) == value = "None"

\* the result was built by _fallback_parsing or create_fallback_analysis, not
\* read from a reply of the model
BuiltByFallback == path \in {"no_model", "no_json", "decode_error", "create_fallback"}

\* C9 as stated, for the results the fallback extractors build: every element
\* of action_items holds task, assignee, assigned_by, deadline and priority,
\* none of them null
C9_ActionItemsComplete ==
    (Answered /\ BuiltByFallback) =>
        \A i \in 1..Len(result.action_items) :
            LET item == result.action_items[i]
            IN  /\ {"task", "assignee", "assigned_by", "deadline", "priority"}
                        \subseteq DOMAIN item
                /\ \A k \in DOMAIN item : ~IsNull(item[k])

\* C10 as stated, for the results the fallback extractors build: the result
\* carries summary, mood, action_items, key_decisions, next_steps and
\* participants, with mood.overall one of Positive, Negative, Neutral
C10_StructurallyComplete ==
    (Answered /\ BuiltByFallback) =>
        /\ {"summary", "mood", "action_items", "key_decisions", "next_steps",
            "participants"} \subseteq DOMAIN result
        /\ result.mood.overall \in {"Positive", "Negative", "Neutral"}

\* the summary _fallback_parsing gives a text that has no content line
PlaceholderSummary == "Meeting transcript processed successfully."

\* C11 as stated: for the empty transcript, process_transcript returns a
\* result whose summary is the fixed placeholder and whose action_items is
\* the empty list
C11_EmptyTranscriptPlaceholder ==
    (transcript = EmptyText /\ pc = "analysed") =>
        /\ result.summary = PlaceholderSummary
        /\ result.action_items = <<>>

\* C12 as stated: two calls of create_fallback_analysis on the same
\* transcript, client name and project name return the same result
C12_FallbackDeterministic ==
    pc = "fallback_twice" => repeat = result

\* C13: classify_task_priority returns one of high, medium, low: high exactly
\* when the lowercased task text plus context holds a high keyword, whether
\* or not it holds a medium keyword; medium exactly when it holds no high
\* keyword and some medium keyword; low exactly when it holds neither
C13_PriorityByKeywordTier ==
    pc = "classified" =>
        LET high == HasHighKeyword(task_text, transcript)
            medium == HasMediumKeyword(task_text, transcript)
        IN  /\ priority \in {"high", "medium", "low"}
            /\ priority = "high" <=> high
            /\ priority = "medium" <=> (~high /\ medium)
            /\ priority = "low" <=> (~high /\ ~medium)

\* C13 witness: a task text with a medium and a high keyword ("important",
\* "critical"), classified high
C13_Witness ==
    /\ pc = "classified"
    /\ task_text \in HighKeywordIn
    /\ task_text \in MediumKeywordIn
    /\ priority = "high"

PriorityLabels == {"critical", "high", "medium", "low"}

\* C14 as stated: every priority of a stored task, and every priority an
\* action item of a returned result carries, is one of critical, high,
\* medium, low
C14_PriorityLabels ==
    /\ \A i \in 1..Len(db.tasks) : db.tasks[i].priority \in PriorityLabels
    /\ Answered =>
          \A i \in 1..Len(result.action_items) :
              LET item == result.action_items[i]
              IN  "priority" \in DOMAIN item => item.priority \in PriorityLabels

\* C15 as stated: neither of two requests reads a value of the module's
\* model that the other request wrote
C15_NoSharedWrites ==
    /\ model_seen /= "other"
    /\ other_seen /= "this"

\* the body is missing, or one of its three fields is empty once trimmed
InvalidBody ==
    \/ data = NoData
    \/ StripText(data.transcript) = EmptyText
    \/ StripName(data.client_name) = ""
    \/ StripName(data.project_name) = ""

\* the database is one a request can find: nothing was added to it
NothingPersisted == db \in {found.db : found \in Databases}

C17_LongTranscriptRejected ==
    (pc = "done" /\ data /= NoData /\ TextLen(data.transcript) > 100000) =>
        /\ status = 400
        /\ "error" \in DOMAIN result

\* C18 as stated: when the handler has answered 200, a MeetingSummary whose
\* transcript is the submitted transcript is committed
C18_AnsweredMeansSaved ==
    Answered =>
        \E i \in 1..Len(db.summaries) :
            db.summaries[i].transcript = data.transcript

\* C19 as stated: without GEMINI_API_KEY in the environment no engine is
\* constructed: AIEngine() raises, and the key written in the source is
\* never configured
C19_NoKeyRaisesValueError ==
    api_key_env = "None" =>
        /\ engine_model = "unbuilt"
        /\ engine_key /= EmbeddedKey

FallbackKeys ==
    {"summary", "action_items", "participants", "key_decisions", "next_steps"}

C21_MoodByCounts ==
    pc \in {"fallback_once", "fallback_twice"} =>
        LET pos == positive_total(transcript, 1)
            neg == negative_total(transcript, 1)
        IN  /\ result.mood.overall \in {"Positive", "Negative", "Neutral"}
            /\ (result.mood.overall = "Positive") <=> (pos > neg)
            /\ (result.mood.overall = "Negative") <=> (neg > pos)
            /\ (result.mood.overall = "Neutral") <=> (pos = neg)
            /\ result.mood.overall = "Positive" =>
                   result.mood.justification
                     = "Meeting had more positive language and successful outcomes"
            /\ result.mood.overall = "Negative" =>
                   result.mood.justification
                     = "Meeting contained several issues and problems to address"
            /\ result.mood.overall = "Neutral" =>
                   result.mood.justification
                     = "Meeting had balanced discussion of topics"

\* a transcript with as many positive words as negative ones, and some of
\* each, was analysed as Neutral
C21_Witness ==
    /\ pc = "fallback_once"
    /\ positive_total(transcript, 1) > 0
    /\ positive_total(transcript, 1) = negative_total(transcript, 1)
    /\ result.mood.overall = "Neutral"

\* C22 as stated: for every utterance "Name: content" of the transcript whose
\* lower case holds a task keyword, the fallback analysis returns an action
\* item whose task is the content without the "Name:", whose assignee is
\* the speaker and whose priority is the one the keywords of the line give
C22_TaskPerKeywordUtterance ==
    pc = "fallback_once" =>
        \A i \in DOMAIN transcript :
            LET line == strip(transcript[i]) IN
            (speaker_of(line) /= "" /\ line \in TaskKeywordIn) =>
                \E k \in DOMAIN result.action_items :
                    LET item == result.action_items[k] IN
                    /\ "task" \in DOMAIN item
                    /\ item.task = content_of(line)
                    /\ item.assignee = speaker_of(line)
                    /\ item.priority = first_pass_priority(line)

\* the speakers of the lines 1..i of a transcript: the participants known
\* when line i is read
SpeakersUpTo(lines, i) ==
    {speaker_of(strip(lines[j])) : j \in 1..i} \ {""}

\* the lines among 1..i that give a remark
RemarkLinesUpTo(lines, i) ==
    {j \in 1..i : /\ speaker_of(strip(lines[j])) /= ""
                  /\ strip(lines[j]) \in RemarkKeywordIn}

\* C23 as stated: given_to of a remark is another known participant named in
\* the content; only when there is none, the target of the first direct
\* pattern that matches; only when there is none either, 'General'.  A
\* direct pattern never replaces a participant that was found
C23_GivenToPrecedence ==
    pc = "fallback_once" =>
        \A i \in DOMAIN transcript :
            LET line == strip(transcript[i])
                speaker == speaker_of(line)
                named == {q \in SpeakersUpTo(transcript, i) :
                             q /= speaker /\ q \in MentionedIn(line)}
                k == Cardinality(RemarkLinesUpTo(transcript, i))
            IN  (i \in RemarkLinesUpTo(transcript, i) /\ k <= ActionItemCap) =>
                    LET given_to == result.action_items[k].given_to IN
                    IF named /= {} THEN given_to \in named
                    ELSE IF direct_target(line) /= "" THEN given_to = direct_target(line)
                    ELSE given_to = "General"

\* C24 as stated: after a fallback extraction, by create_fallback_analysis
\* or by _fallback_parsing, none of action_items, key_decisions and
\* next_steps is empty
C24_FallbackListsNonEmpty ==
    (Answered /\ BuiltByFallback) =>
        /\ result.action_items /= <<>>
        /\ result.key_decisions /= <<>>
        /\ result.next_steps /= <<>>

\* C24, amended: after create_fallback_analysis none of action_items,
\* key_decisions and next_steps is empty: the two latter are the hardcoded
\* defaults, and when no line gave a remark action_items is exactly the one
\* placeholder entry of person 'System', which stands in no other list
C24_CreateFallbackListsNonEmpty ==
    (Answered /\ path = "create_fallback") =>
        /\ result.action_items /= <<>>
        /\ result.key_decisions = <<"Project timeline and deliverables discussed",
                                    "Resource allocation planned",
                                    "Next meeting scheduled">>
        /\ result.next_steps = <<"Follow up on action items",
                                 "Prepare progress report",
                                 "Schedule next review meeting">>
        /\ RemarkLinesUpTo(transcript, Len(transcript)) = {} =>
               result.action_items
                 = <<[person |-> "System",
                      remark |-> "Meeting analysis completed using fallback processing",
                      given_to |-> "General"]>>
        /\ \A k \in DOMAIN result.action_items :
               result.action_items[k].person = "System" =>
                   Len(result.action_items) = 1

\* the handler answered with the analysis create_fallback_analysis built of a
\* transcript without a remark: its one action item is the placeholder
C24_Witness ==
    /\ Answered
    /\ path = "create_fallback"
    /\ transcript /= EmptyText
    /\ Len(result.action_items) = 1
    /\ result.action_items[1].person = "System"

\* the instruction names the template focus
TemplateInPrompt(prompt) ==
    /\ "template_context" \in DOMAIN prompt
    /\ prompt.template_context /= ""

\* C25 as stated: the instruction sent to the model holds a qualifier for
\* exactly the context values that were supplied: the client name if and
\* only if it is non-empty, the project name if and only if it is
\* non-empty, the template focus if and only if a template was selected
C25_PromptQualifiers ==
    \A k \in DOMAIN calls :
        calls[k].by = "process_transcript" =>
            LET prompt == calls[k].prompt IN
            /\ prompt.context_intro =
                   IF client_name = "" /\ project_name = "" THEN ""
                   ELSE "You are analyzing a meeting"
                        \o (IF client_name /= ""
                            THEN " for the client " \o client_name ELSE "")
                        \o (IF project_name /= ""
                            THEN " regarding the project " \o project_name ELSE "")
                        \o ". With this context in mind, analyze the following transcript:\n\n"
            /\ template_context /= "" <=> TemplateInPrompt(prompt)

\* the handler answered 200 and its rows were committed
Committed == Answered /\ db_error = ""

\* C26 as stated: every task row a request saves has for meeting_id the id of
\* the summary row of that request, never null, and for project_id the
\* project_id of that summary
C26_TaskLinkedToSummary ==
    Committed =>
        \A k \in DOMAIN db.tasks :
            LET task == db.tasks[k]
                summary == db.summaries[Len(db.summaries)]
            IN  /\ ~IsNull(task.meeting_id)
                /\ task.meeting_id = summary.id
                /\ task.project_id = summary.project_id

\* no row of the request is in the database: no summary, no task, and no
\* project but the one that was there before
NoRowOfRequest ==
    /\ db.summaries = <<>>
    /\ db.tasks = <<>>
    /\ db.projects \subseteq {ExistingProject}

\* every row of the request is in the database: the project of its client
\* and project names, its summary in that project, a task per action item
AllRowsOfRequest ==
    /\ Len(db.summaries) = 1
    /\ db.summaries[1].transcript = transcript
    /\ \E p \in db.projects :
          /\ p.name = project_name
          /\ p.client = client_name
          /\ db.summaries[1].project_id = p.id
    /\ Len(db.tasks) = Len(Get(result, "action_items", <<>>))

\* C28: the rows a request writes are committed all or none: the project
\* when it is new, the summary and every task; after a failure while a task
\* is built or saved, no summary and no project of the request is stored
C28_AllOrNothing ==
    pc = "done" =>
        /\ NoRowOfRequest \/ AllRowsOfRequest
        /\ (status = 200 /\ db_error = "") => AllRowsOfRequest
        /\ db_error /= "" => NoRowOfRequest

\* an action item that is no dict raised after the new project was flushed
\* and the summary added: the handler answered 200 and no row was stored
C28_Witness ==
    /\ Answered
    /\ db_error = "AttributeError"
    /\ ~created_by_required
    /\ db.projects = {}
    /\ db.summaries = <<>>

\* C29 as stated: send_critical_task_email is called for a task only if the
\* task is committed, never for a task whose transaction is rolled back
C29_AlertOnlyIfCommitted ==
    pc = "done" =>
        \A k \in DOMAIN alerts :
            /\ db_error = ""
            /\ \E j \in DOMAIN db.tasks :
                  db.tasks[j].task_description = Get(alerts[k], "task", "")

\* C30: the priority stored with a task is classify_task_priority of the
\* task text and the whole transcript, never the priority of the
\* extraction; when the transcript holds a high keyword every task of it is
\* stored high and an alert email is sent for each
C30_StoredPriorityIsClassified ==
    Committed =>
        /\ \A k \in DOMAIN db.tasks :
              /\ db.tasks[k].priority
                    = classify_task_priority(db.tasks[k].task_description,
                                             transcript)
              /\ HasHighKeyword("", transcript) => db.tasks[k].priority = "high"
        /\ HasHighKeyword("", transcript) => Len(alerts) = Len(db.tasks)
        /\ Len(alerts) = Cardinality({k \in DOMAIN db.tasks :
                                         db.tasks[k].priority = "high"})

\* a task the reply gave the priority 'Urgent' and a text without keyword,
\* of a transcript with a high keyword, is stored high and an alert was sent
C30_Witness ==
    /\ Committed
    /\ Len(db.tasks) = 1
    /\ result.action_items[1].priority = "Urgent"
    /\ ~HasHighKeyword(db.tasks[1].task_description, EmptyText)
    /\ HasHighKeyword("", transcript)
    /\ db.tasks[1].priority = "high"
    /\ Len(alerts) = 1

\* the requests of a key that were let through in the 3600 seconds up to now
AdmittedInWindow(key) ==
    {i \in DOMAIN requests[key] : now - requests[key][i] < WindowSeconds}

\* C27 as stated: /api/summarize lets through at most 10 requests of one
\* client address in any 3600 seconds
C27_TenPerHour ==
    \A key \in RateKeys :
        Cardinality(AdmittedInWindow(key)) <= SummarizeRequests

====
